---- MODULE Spec2Model ----
(***************************************************************************)
(* MultiThreadIndex<Distance> (vs_flann.hpp): the facade that owns one     *)
(* NNIndex instance, builds it or restores it from a saved file, forwards  *)
(* mutation and query calls to it, and saves it.                           *)
(*                                                                         *)
(* The facade objects of a calling program are the slots of Facades; the   *)
(* NNIndex instances live in heap, addressed by 1..MaxAlloc, NULL is 0.    *)
(* Every action is one whole member function; events records, in order,    *)
(* what that call did to the outside (stdio calls and calls on the NNIndex *)
(* interface).                                                             *)
(***************************************************************************)
EXTENDS Integers, Sequences, FiniteSets, TLC

VARIABLES facade, heap, nalloc, files, savedFrom, last, crashed

vars == <<facade, heap, nalloc, files, savedFrom, last, crashed>>

(***************************************************************************)
(* Bounds of the model.                                                    *)
(***************************************************************************)
\* number of NNIndex instances the program may allocate in one run
MaxAlloc == 3
\* most rows an index holds (addPoints is not called beyond it)
MaxPts == 2

(***************************************************************************)
(* Enumerations of vs_general.h, used by vs_flann.hpp.                     *)
(***************************************************************************)
FLANN_INDEX_LINEAR == 0
FLANN_INDEX_SAVED == 254
\* a tag for which create_index_by_type has no implementation
UnknownIndexType == 99
FLANN_FLOAT32 == 8
FLANN_FLOAT64 == 9

\* the index types create_index_by_type implements in this build
KnownTypes == {FLANN_INDEX_LINEAR}

\* flann_datatype_value<ElementType>::value of the instantiation in use
ElementTypeTag == FLANN_FLOAT32

NULL == 0

Addrs == 1..MaxAlloc

Facades == {"x", "y"}

(***************************************************************************)
(* Matrix<ElementType>: cols and the rows, each row a tuple of cols        *)
(* numbers.                                                                *)
(***************************************************************************)
Mat(c, r) == [cols |-> c, rows |-> r]

\* Matrix<ElementType> features; (default constructed, line 61)
EmptyMatrix == Mat(0, <<>>)

\* the point sets the caller passes in: PointSets in the program of two
\* facades (SpecTwo), PointSetsOne in the program of one facade (Spec)
PointSets == {Mat(1, <<<<0>>>>)}

PointSetsOne == {Mat(1, <<<<0>>>>), Mat(2, <<<<1, 1>>>>)}

\* the query sets the caller passes in (one per dimensionality)
QuerySetsOne == {Mat(1, <<<<1>>>>), Mat(2, <<<<0, 1>>>>)}

Knns == {2}

\* radii, compared with squared distances
Radii == {1}

SearchParamsSet == {"checks32"}

\* the ids removePoint is called with (SpecTwo, Spec)
PointIds == {0}

PointIdsOne == {0, 1}

\* the result-container overloads: Matrix or vector of vectors, size_t or int
Variants == {"Matrix_size_t", "Matrix_int", "vector_size_t", "vector_int"}

(***************************************************************************)
(* File names.  "nodir/x.idx" lies in a directory that does not exist:     *)
(* fopen fails on it in both modes.  "f64.idx" was saved by an             *)
(* instantiation over double, "bogus.idx" carries an index type this build *)
(* does not know, "empty.idx" has no bytes.                                *)
(***************************************************************************)
FileNames == {"a.idx", "f64.idx", "bogus.idx", "empty.idx", "nodir/x.idx"}

NoDir == {"nodir/x.idx"}

\* the names save is called with
SaveNames == {"a.idx", "nodir/x.idx"}

IndexParams(alg, fn) == [algorithm |-> alg, filename |-> fn]

\* SavedIndexParams(filename), lines 36-43
SavedIndexParams(fn) == IndexParams(FLANN_INDEX_SAVED, fn)

\* the configurations the caller constructs facades with
Configs ==
    {IndexParams(t, "") : t \in {FLANN_INDEX_LINEAR, UnknownIndexType}}
        \cup {SavedIndexParams(fn) : fn \in FileNames}

(***************************************************************************)
(* The NNIndex<Distance> interface (algorithms/vs_all_indices.h), as the   *)
(* facade uses it.  An instance is its type, its dimensionality, its       *)
(* points, the ids removed, and whether it was built; restored records     *)
(* that loadIndex filled it.                                               *)
(***************************************************************************)
Index(t, m) ==
    [st |-> "live", type |-> t, veclen |-> m.cols, pts |-> m.rows,
     removed |-> {}, built |-> FALSE, restored |-> FALSE]

Unallocated ==
    [st |-> "unalloc", type |-> 0, veclen |-> 0, pts |-> <<>>,
     removed |-> {}, built |-> FALSE, restored |-> FALSE]

Deleted == [Unallocated EXCEPT !.st = "deleted"]

\* an instance no pointer is left to, its content no longer observable
Leaked == [Unallocated EXCEPT !.st = "live"]

Alg_buildIndex(a) == [a EXCEPT !.built = TRUE]

Alg_buildIndexPts(a, m) ==
    [a EXCEPT !.veclen = m.cols, !.pts = m.rows, !.removed = {}, !.built = TRUE]

Alg_addPoints(a, m, thr) == [a EXCEPT !.pts = a.pts \o m.rows]

Alg_removePoint(a, id) ==
    IF id + 1 \in DOMAIN a.pts THEN [a EXCEPT !.removed = a.removed \cup {id}]
    ELSE a

Alg_size(a) == Len(a.pts) - Cardinality(a.removed)

Alg_veclen(a) == a.veclen

Alg_getType(a) == a.type

\* ids of the points still in the index
Alg_ids(a) == {i \in 0..(Len(a.pts) - 1) : i \notin a.removed}

RECURSIVE SqDist(_, _)
SqDist(p, q) ==
    IF p = <<>> \/ q = <<>> THEN 0
    ELSE (Head(p) - Head(q)) * (Head(p) - Head(q)) + SqDist(Tail(p), Tail(q))

\* the id of ids nearest to q, ties to the smaller id
Nearest(a, q, ids) ==
    CHOOSE i \in ids : \A j \in ids :
        \/ SqDist(a.pts[i + 1], q) < SqDist(a.pts[j + 1], q)
        \/ SqDist(a.pts[i + 1], q) = SqDist(a.pts[j + 1], q) /\ i <= j

RECURSIVE KnnOf(_, _, _, _)
KnnOf(a, q, ids, k) ==
    IF k = 0 \/ ids = {} THEN <<>>
    ELSE LET n == Nearest(a, q, ids)
         IN  <<n>> \o KnnOf(a, q, ids \ {n}, k - 1)

\* the neighbours of every row of queries, nearest first
Alg_knnSearch(a, queries, knn) ==
    [r \in DOMAIN queries.rows |-> KnnOf(a, queries.rows[r], Alg_ids(a), knn)]

Alg_radiusSearch(a, queries, radius) ==
    [r \in DOMAIN queries.rows |->
        LET q == queries.rows[r]
            within == {i \in Alg_ids(a) : SqDist(a.pts[i + 1], q) <= radius}
        IN  KnnOf(a, q, within, Cardinality(within))]

RECURSIVE Total(_)
Total(res) == IF res = <<>> THEN 0 ELSE Len(Head(res)) + Total(Tail(res))

\* the count a search returns
Count(res) == Total(res)

(***************************************************************************)
(* The saved stream (util/vs_saving.h and the index's own serializer): the *)
(* header, element type then index type, then the dimensionality, the      *)
(* number of points, the coordinates, and one removed flag per point.      *)
(***************************************************************************)
HeaderLen == 2

RECURSIVE Flatten(_)
Flatten(rows) == IF rows = <<>> THEN <<>> ELSE Head(rows) \o Flatten(Tail(rows))

Alg_saveIndex(a) ==
    <<ElementTypeTag, a.type, a.veclen, Len(a.pts)>>
        \o Flatten(a.pts)
        \o [i \in 1..Len(a.pts) |-> IF (i - 1) \in a.removed THEN 1 ELSE 0]

\* load_header(FILE*): the header at the stream's position, which it advances
HeaderReadable(fin) == Len(fin.data) >= fin.pos + HeaderLen

load_header(fin) ==
    [data_type |-> fin.data[fin.pos + 1], index_type |-> fin.data[fin.pos + 2]]

AfterHeader(fin) == [fin EXCEPT !.pos = fin.pos + HeaderLen]

\* rewind(FILE*)
rewind(fin) == [fin EXCEPT !.pos = 0]

\* can a.loadIndex(fin) read a whole index of its own type from fin's position
Alg_loadable(a, fin) ==
    LET d == fin.data
        p == fin.pos
    IN  /\ Len(d) >= p + 4
        /\ d[p + 1] = ElementTypeTag
        /\ d[p + 2] = a.type
        /\ d[p + 3] >= 0
        /\ d[p + 4] >= 0
        /\ Len(d) >= p + 4 + d[p + 4] * d[p + 3] + d[p + 4]
        /\ \A i \in 1..d[p + 4] : d[p + 4 + d[p + 4] * d[p + 3] + i] \in {0, 1}

\* a.loadIndex(fin), when Alg_loadable
Alg_loadIndex(a, fin) ==
    LET d == fin.data
        p == fin.pos
        vl == d[p + 3]
        n == d[p + 4]
    IN  [a EXCEPT
            !.veclen = vl,
            !.pts = [i \in 1..n |-> [c \in 1..vl |-> d[p + 4 + (i - 1) * vl + c]]],
            !.removed = {i \in 0..(n - 1) : d[p + 4 + n * vl + i + 1] = 1},
            !.built = TRUE,
            !.restored = TRUE]

Alg_clone(a) == a

\* create_index_by_type<Distance>(type, dataset, params, distance) has an
\* implementation for type
Creatable(type) == type \in KnownTypes

create_index_by_type(type, dataset) == Index(type, dataset)

(***************************************************************************)
(* Events and results of one call.                                         *)
(***************************************************************************)
Ev(c, o, a) == [call |-> c, obj |-> o, args |-> a]

Calls(evs, c) == {i \in DOMAIN evs : evs[i].call = c}

CannotOpen == "Cannot open file"

DatatypeMismatch ==
    "Datatype of saved index is different than of the one to be loaded."

UnknownType == "Unknown index type"

InvalidFile == "Invalid index file"

ReadError == "Error reading index"

WriteError == "Error writing index"

SIGSEGV == "SIGSEGV"

Readable(fn) == fn \notin NoDir /\ files[fn].present

Writable(fn) == fn \notin NoDir

\* what load_saved_index gives back: the pointer returned, the exception thrown
\* (if any), the events, and the instance it allocated (if any) at address at
LoadResult(r, err, evs, cr, o) ==
    [ret |-> r, error |-> err, events |-> evs, created |-> cr, obj |-> o]

\* load_saved_index without the check of the header's data type
load_saved_index_unchecked(dataset, filename, at) ==
    IF ~Readable(filename)
    THEN LoadResult(NULL, "", <<Ev("fopen_failed", NULL, <<filename, "rb">>)>>,
                    FALSE, Unallocated)
    ELSE
    LET fin == [data |-> files[filename].data, pos |-> 0]
        open == <<Ev("fopen", NULL, <<filename, "rb">>)>>
    IN
    IF ~HeaderReadable(fin)
    THEN LoadResult(NULL, InvalidFile, open \o <<Ev("load_header", NULL, <<>>)>>,
                    FALSE, Unallocated)
    ELSE
    LET header == load_header(fin)
        read == open \o <<Ev("load_header", NULL, <<header.data_type>>)>>
    IN
    IF ~Creatable(header.index_type)
    THEN LoadResult(NULL, UnknownType,
                    read \o <<Ev("create_index_by_type", NULL, <<header.index_type>>)>>,
                    FALSE, Unallocated)
    ELSE
    LET nnIndex == create_index_by_type(header.index_type, dataset)
        made == read \o <<Ev("create_index_by_type", at, <<header.index_type>>),
                          Ev("rewind", NULL, <<>>)>>
        rew == rewind(AfterHeader(fin))
    IN
    IF ~Alg_loadable(nnIndex, rew)
    THEN LoadResult(NULL, ReadError, made \o <<Ev("loadIndex", at, <<>>)>>,
                    TRUE, nnIndex)
    ELSE LoadResult(at, "",
                    made \o <<Ev("loadIndex", at, <<>>), Ev("fclose", NULL, <<>>)>>,
                    TRUE, Alg_loadIndex(nnIndex, rew))

\* load_saved_index without the rewind before loadIndex
load_saved_index_norewind(dataset, filename, at) ==
    IF ~Readable(filename)
    THEN LoadResult(NULL, "", <<Ev("fopen_failed", NULL, <<filename, "rb">>)>>,
                    FALSE, Unallocated)
    ELSE
    LET fin == [data |-> files[filename].data, pos |-> 0]
        open == <<Ev("fopen", NULL, <<filename, "rb">>)>>
    IN
    IF ~HeaderReadable(fin)
    THEN LoadResult(NULL, InvalidFile, open \o <<Ev("load_header", NULL, <<>>)>>,
                    FALSE, Unallocated)
    ELSE
    LET header == load_header(fin)
        read == open \o <<Ev("load_header", NULL, <<header.data_type>>)>>
    IN
    IF header.data_type # ElementTypeTag
    THEN LoadResult(NULL, DatatypeMismatch, read, FALSE, Unallocated)
    ELSE
    IF ~Creatable(header.index_type)
    THEN LoadResult(NULL, UnknownType,
                    read \o <<Ev("create_index_by_type", NULL, <<header.index_type>>)>>,
                    FALSE, Unallocated)
    ELSE
    LET nnIndex == create_index_by_type(header.index_type, dataset)
        made == read \o <<Ev("create_index_by_type", at, <<header.index_type>>)>>
        rew == AfterHeader(fin)
    IN
    IF ~Alg_loadable(nnIndex, rew)
    THEN LoadResult(NULL, ReadError, made \o <<Ev("loadIndex", at, <<>>)>>,
                    TRUE, nnIndex)
    ELSE LoadResult(at, "",
                    made \o <<Ev("loadIndex", at, <<>>), Ev("fclose", NULL, <<>>)>>,
                    TRUE, Alg_loadIndex(nnIndex, rew))

\* load_saved_index(dataset, filename, distance), lines 343-362; at is the
\* address the instance it creates is allocated at
load_saved_index(dataset, filename, at) ==
    \* FILE* fin = fopen(filename.c_str(), "rb"); if (fin == NULL) return NULL;
    IF ~Readable(filename)
    THEN LoadResult(NULL, "", <<Ev("fopen_failed", NULL, <<filename, "rb">>)>>,
                    FALSE, Unallocated)
    ELSE
    LET fin == [data |-> files[filename].data, pos |-> 0]
        open == <<Ev("fopen", NULL, <<filename, "rb">>)>>
    IN
    \* IndexHeader header = load_header(fin);
    IF ~HeaderReadable(fin)
    THEN LoadResult(NULL, InvalidFile, open \o <<Ev("load_header", NULL, <<>>)>>,
                    FALSE, Unallocated)
    ELSE
    LET header == load_header(fin)
        read == open \o <<Ev("load_header", NULL, <<header.data_type>>)>>
    IN
    \* if (header.h.data_type != flann_datatype_value<ElementType>::value) throw
    IF header.data_type # ElementTypeTag
    THEN LoadResult(NULL, DatatypeMismatch, read, FALSE, Unallocated)
    ELSE
    \* IndexType* nnIndex = create_index_by_type<Distance>(header.h.index_type, ...)
    IF ~Creatable(header.index_type)
    THEN LoadResult(NULL, UnknownType,
                    read \o <<Ev("create_index_by_type", NULL, <<header.index_type>>)>>,
                    FALSE, Unallocated)
    ELSE
    LET nnIndex == create_index_by_type(header.index_type, dataset)
        made == read \o <<Ev("create_index_by_type", at, <<header.index_type>>),
                          Ev("rewind", NULL, <<>>)>>
        rew == rewind(AfterHeader(fin))
    IN
    \* nnIndex->loadIndex(fin); fclose(fin); return nnIndex;
    IF ~Alg_loadable(nnIndex, rew)
    THEN LoadResult(NULL, ReadError, made \o <<Ev("loadIndex", at, <<>>)>>,
                    TRUE, nnIndex)
    ELSE LoadResult(at, "",
                    made \o <<Ev("loadIndex", at, <<>>), Ev("fclose", NULL, <<>>)>>,
                    TRUE, Alg_loadIndex(nnIndex, rew))

(***************************************************************************)
(* State.                                                                  *)
(***************************************************************************)
\* a slot holding no constructed MultiThreadIndex
NoFacade ==
    [live |-> FALSE, nnIndex_ |-> NULL, loaded_ |-> FALSE,
     index_params_ |-> IndexParams(0, "")]

\* the members of a constructed MultiThreadIndex, lines 372-377
Members(p, l, ip) ==
    [live |-> TRUE, nnIndex_ |-> p, loaded_ |-> l, index_params_ |-> ip]

Live == {f \in Facades : facade[f].live}

Deref(p) == IF p \in Addrs THEN heap[p] ELSE Unallocated

NoSnapshot == [valid |-> FALSE, snap |-> Unallocated]

\* the outcome of one member function call
Outcome(o, f, a, evs, r, err) ==
    [op |-> o, fac |-> f, args |-> a, events |-> evs, ret |-> r, error |-> err]

Init ==
    /\ facade = [f \in Facades |-> NoFacade]
    /\ heap = [a \in Addrs |-> Unallocated]
    /\ nalloc = 0
    /\ files =
        [fn \in FileNames |->
            CASE fn = "f64.idx" ->
                    [present |-> TRUE,
                     data |-> <<FLANN_FLOAT64, FLANN_INDEX_LINEAR, 1, 1, 0, 0>>]
              [] fn = "bogus.idx" ->
                    [present |-> TRUE,
                     data |-> <<FLANN_FLOAT32, UnknownIndexType, 1, 0>>]
              [] fn = "empty.idx" -> [present |-> TRUE, data |-> <<>>]
              [] OTHER -> [present |-> FALSE, data |-> <<>>]]
    /\ savedFrom = [fn \in FileNames |-> NoSnapshot]
    /\ last = Outcome("start", "", <<>>, <<>>, -1, "")
    /\ crashed = FALSE

\* undefined behaviour, a call through a null nnIndex_ or a second delete of
\* the same pointer: the virtual call loads the vtable pointer from address 0
\* and the process is killed by the signal, having done evs before
Trap(o, f, a, evs) ==
    /\ crashed' = TRUE
    /\ last' = Outcome(o, f, a, evs, -1, SIGSEGV)

(***************************************************************************)
(* Construction, copy, assignment, destruction.                            *)
(***************************************************************************)
\* the body shared by the two constructors (lines 56-70 and 74-87): the
\* result of load_saved_index or of create_index_by_type, and loaded_
ctor_body(features, params, at) ==
    LET index_type == params.algorithm
    IN  IF index_type = FLANN_INDEX_SAVED
        THEN [load |-> load_saved_index(features, params.filename, at),
              loaded |-> TRUE]
        ELSE IF Creatable(index_type)
        THEN [load |-> LoadResult(at, "",
                          <<Ev("create_index_by_type", at, <<index_type>>)>>,
                          TRUE, create_index_by_type(index_type, features)),
              loaded |-> FALSE]
        ELSE [load |-> LoadResult(NULL, UnknownType,
                          <<Ev("create_index_by_type", NULL, <<index_type>>)>>,
                          FALSE, Unallocated),
              loaded |-> FALSE]

\* the object exists only if the constructor did not throw
Constructed(o, f, features, params) ==
    LET at == nalloc + 1
        c == ctor_body(features, params, at)
        l == c.load
    IN  /\ heap' = IF l.created
                   THEN [heap EXCEPT ![at] = IF l.error = "" THEN l.obj ELSE Leaked]
                   ELSE heap
        /\ nalloc' = IF l.created THEN at ELSE nalloc
        /\ facade' = IF l.error = ""
                     THEN [facade EXCEPT ![f] = Members(l.ret, c.loaded, params)]
                     ELSE facade
        /\ last' = Outcome(o, f, <<params, features>>, l.events, -1, l.error)
        /\ UNCHANGED <<files, savedFrom, crashed>>

\* MultiThreadIndex(const IndexParams& params, Distance), lines 55-70
Construct(f, params) ==
    /\ ~crashed
    /\ ~facade[f].live
    /\ nalloc < MaxAlloc
    /\ Constructed("MultiThreadIndex(params)", f, EmptyMatrix, params)

\* MultiThreadIndex(const Matrix& features, const IndexParams& params, Distance),
\* lines 73-87
ConstructFeatures(f, features, params) ==
    /\ ~crashed
    /\ ~facade[f].live
    /\ nalloc < MaxAlloc
    /\ Constructed("MultiThreadIndex(features,params)", f, features, params)

\* delete nnIndex_ on the heap h
Delete(h, p) == IF p = NULL THEN h ELSE [h EXCEPT ![p] = Deleted]

\* delete of a pointer already deleted
DoubleDelete(p) == p # NULL /\ heap[p].st # "live"

\* MultiThreadIndex(const MultiThreadIndex& other), lines 90-93
CopyConstruct(f, other) ==
    /\ ~crashed
    /\ ~facade[f].live
    /\ facade[other].live
    /\ nalloc < MaxAlloc
    /\ LET src == facade[other].nnIndex_
           at == nalloc + 1
       IN  IF src = NULL
           THEN /\ Trap("MultiThreadIndex(other)", f, <<other>>, <<>>)
                /\ UNCHANGED <<facade, heap, nalloc, files, savedFrom>>
           ELSE /\ heap' = [heap EXCEPT ![at] = Alg_clone(heap[src])]
                /\ nalloc' = at
                /\ facade' = [facade EXCEPT ![f] =
                        Members(at, facade[other].loaded_, facade[other].index_params_)]
                /\ last' = Outcome("MultiThreadIndex(other)", f, <<other>>,
                                   <<Ev("clone", src, <<>>)>>, -1, "")
                /\ UNCHANGED <<files, savedFrom, crashed>>

\* operator=(MultiThreadIndex other), lines 95-99, with swap, lines 364-369:
\* other is a copy of the right-hand side, swapped with *this and destroyed
Assign(f, rhs) ==
    /\ ~crashed
    /\ facade[f].live
    /\ facade[rhs].live
    /\ nalloc < MaxAlloc
    /\ LET src == facade[rhs].nnIndex_
           at == nalloc + 1
           old == facade[f].nnIndex_
       IN  IF src = NULL
           THEN /\ Trap("operator=", f, <<rhs>>, <<>>)
                /\ UNCHANGED <<facade, heap, nalloc, files, savedFrom>>
           ELSE IF DoubleDelete(old)
           THEN /\ Trap("operator=", f, <<rhs>>, <<Ev("clone", src, <<>>)>>)
                /\ UNCHANGED <<facade, heap, nalloc, files, savedFrom>>
           ELSE /\ heap' = Delete([heap EXCEPT ![at] = Alg_clone(heap[src])], old)
                /\ nalloc' = at
                /\ facade' = [facade EXCEPT ![f] =
                        Members(at, facade[rhs].loaded_, facade[rhs].index_params_)]
                /\ last' = Outcome("operator=", f, <<rhs>>,
                                   <<Ev("clone", src, <<>>), Ev("delete", old, <<>>)>>,
                                   -1, "")
                /\ UNCHANGED <<files, savedFrom, crashed>>

\* ~MultiThreadIndex(), lines 101-104
Destroy(f) ==
    /\ ~crashed
    /\ facade[f].live
    /\ LET old == facade[f].nnIndex_
       IN  IF DoubleDelete(old)
           THEN /\ Trap("~MultiThreadIndex", f, <<>>, <<>>)
                /\ UNCHANGED <<facade, heap, nalloc, files, savedFrom>>
           ELSE /\ heap' = Delete(heap, old)
                /\ facade' = [facade EXCEPT ![f] = NoFacade]
                /\ last' = Outcome("~MultiThreadIndex", f, <<>>,
                                   <<Ev("delete", old, <<>>)>>, -1, "")
                /\ UNCHANGED <<nalloc, files, savedFrom, crashed>>

(***************************************************************************)
(* Lifecycle operations, lines 109-143: each is one call on nnIndex_.      *)
(***************************************************************************)
\* nnIndex_->call(args): the instance becomes obj and the call returns r
Forward(o, f, a, call, obj, r) ==
    LET p == facade[f].nnIndex_
    IN  IF p = NULL
        THEN /\ Trap(o, f, a, <<>>)
             /\ UNCHANGED <<facade, heap, nalloc, files, savedFrom>>
        ELSE /\ heap' = [heap EXCEPT ![p] = obj]
             /\ last' = Outcome(o, f, a, <<Ev(call, p, a)>>, r, "")
             /\ UNCHANGED <<facade, nalloc, files, savedFrom, crashed>>

\* the instance a live facade points to
Owned(f) == Deref(facade[f].nnIndex_)

\* buildIndex() without the test of loaded_
buildIndex_unguarded(f) ==
    /\ ~crashed
    /\ facade[f].live
    /\ Forward("buildIndex()", f, <<>>, "buildIndex", Alg_buildIndex(Owned(f)), -1)

\* void buildIndex(), lines 109-114
buildIndex(f) ==
    /\ ~crashed
    /\ facade[f].live
    /\ IF ~facade[f].loaded_
       THEN Forward("buildIndex()", f, <<>>, "buildIndex", Alg_buildIndex(Owned(f)), -1)
       ELSE /\ last' = Outcome("buildIndex()", f, <<>>, <<>>, -1, "")
            /\ UNCHANGED <<facade, heap, nalloc, files, savedFrom, crashed>>

\* void buildIndex(const Matrix<ElementType>& points), lines 116-119
buildIndexPoints(f, points) ==
    /\ ~crashed
    /\ facade[f].live
    /\ Forward("buildIndex(points)", f, <<points>>, "buildIndex",
               Alg_buildIndexPts(Owned(f), points), -1)

\* void addPoints(const Matrix<ElementType>& points, float rebuild_threshold),
\* lines 121-124; the caller passes points of the index's dimensionality
addPoints(f, points, rebuild_threshold) ==
    /\ ~crashed
    /\ facade[f].live
    /\ \/ facade[f].nnIndex_ = NULL
       \/ /\ points.cols = Owned(f).veclen
          /\ Len(Owned(f).pts) + Len(points.rows) <= MaxPts
    /\ Forward("addPoints", f, <<points, rebuild_threshold>>, "addPoints",
               Alg_addPoints(Owned(f), points, rebuild_threshold), -1)

\* void removePoint(size_t point_id), lines 130-133
removePoint(f, point_id) ==
    /\ ~crashed
    /\ facade[f].live
    /\ Forward("removePoint", f, <<point_id>>, "removePoint",
               Alg_removePoint(Owned(f), point_id), -1)

(***************************************************************************)
(* Introspection, lines 162-181.                                           *)
(***************************************************************************)
\* size_t veclen() const, lines 162-165
veclen(f) ==
    /\ ~crashed
    /\ facade[f].live
    /\ Forward("veclen", f, <<>>, "veclen", Owned(f), Alg_veclen(Owned(f)))

\* size_t size() const, lines 170-173
size(f) ==
    /\ ~crashed
    /\ facade[f].live
    /\ Forward("size", f, <<>>, "size", Owned(f), Alg_size(Owned(f)))

\* flann_algorithm_t getType() const, lines 178-181
getType(f) ==
    /\ ~crashed
    /\ facade[f].live
    /\ Forward("getType", f, <<>>, "getType", Owned(f), Alg_getType(Owned(f)))

(***************************************************************************)
(* Queries, lines 208-340: four knnSearch and four radiusSearch overloads, *)
(* told apart by the types of indices and dists (variant).                 *)
(***************************************************************************)
\* the caller passes queries of the index's dimensionality
QueryFits(f, queries) ==
    facade[f].nnIndex_ = NULL \/ queries.cols = Owned(f).veclen

\* int knnSearch(queries, indices, dists, knn, params), lines 208-268
knnSearch(f, variant, queries, knn, params) ==
    /\ ~crashed
    /\ facade[f].live
    /\ QueryFits(f, queries)
    /\ Forward("knnSearch", f, <<variant, queries, knn, params>>, "knnSearch",
               Owned(f), Count(Alg_knnSearch(Owned(f), queries, knn)))

\* int radiusSearch(queries, indices, dists, radius, params), lines 279-340
radiusSearch(f, variant, queries, radius, params) ==
    /\ ~crashed
    /\ facade[f].live
    /\ QueryFits(f, queries)
    /\ Forward("radiusSearch", f, <<variant, queries, radius, params>>, "radiusSearch",
               Owned(f), Count(Alg_radiusSearch(Owned(f), queries, radius)))

(***************************************************************************)
(* save, lines 149-157.                                                    *)
(***************************************************************************)
Prefix(s, n) == SubSeq(s, 1, n)

\* how much of the stream is on disk when saveIndex fails in the middle
WriteCuts(enc) == {n \in {HeaderLen} : n < Len(enc)}

OnDisk(d) == [present |-> TRUE, data |-> d]

\* what a later load of the file has to reproduce
Snapshot(a) == [valid |-> TRUE, snap |-> [a EXCEPT !.built = TRUE, !.restored = TRUE]]

\* void save(std::string filename), lines 149-157
save(f, filename) ==
    /\ ~crashed
    /\ facade[f].live
    /\ LET p == facade[f].nnIndex_
           o == "save"
           a == <<filename>>
       IN
       \* FILE* fout = fopen(filename.c_str(), "wb"); if (fout == NULL) throw
       IF ~Writable(filename)
       THEN /\ last' = Outcome(o, f, a, <<Ev("fopen_failed", NULL, <<filename, "wb">>)>>,
                               -1, CannotOpen)
            /\ UNCHANGED <<facade, heap, nalloc, files, savedFrom, crashed>>
       ELSE
       \* nnIndex_->saveIndex(fout);
       IF p = NULL
       THEN /\ Trap(o, f, a, <<Ev("fopen", NULL, <<filename, "wb">>)>>)
            /\ files' = [files EXCEPT ![filename] = OnDisk(<<>>)]
            /\ savedFrom' = [savedFrom EXCEPT ![filename] = NoSnapshot]
            /\ UNCHANGED <<facade, heap, nalloc>>
       ELSE
       LET enc == Alg_saveIndex(heap[p])
       IN  \/ /\ files' = [files EXCEPT ![filename] = OnDisk(enc)]
              /\ savedFrom' = [savedFrom EXCEPT ![filename] = Snapshot(heap[p])]
              \* fclose(fout);
              /\ last' = Outcome(o, f, a,
                                 <<Ev("fopen", NULL, <<filename, "wb">>),
                                   Ev("saveIndex", p, <<>>),
                                   Ev("fclose", NULL, <<>>)>>, -1, "")
              /\ UNCHANGED <<facade, heap, nalloc, crashed>>
           \/ \E n \in WriteCuts(enc) :
              \* saveIndex throws: the exception leaves save before fclose
              /\ files' = [files EXCEPT ![filename] = OnDisk(Prefix(enc, n))]
              /\ savedFrom' = [savedFrom EXCEPT ![filename] = NoSnapshot]
              /\ last' = Outcome(o, f, a,
                                 <<Ev("fopen", NULL, <<filename, "wb">>),
                                   Ev("saveIndex", p, <<>>)>>, -1, WriteError)
              /\ UNCHANGED <<facade, heap, nalloc, crashed>>

(***************************************************************************)
(* A program of one facade: any sequence of calls on it.                   *)
(***************************************************************************)
Primary == "x"

Next ==
    \/ \E params \in Configs : Construct(Primary, params)
    \/ \E features \in PointSetsOne, params \in Configs :
            ConstructFeatures(Primary, features, params)
    \/ Assign(Primary, Primary)
    \/ Destroy(Primary)
    \/ buildIndex(Primary)
    \/ \E points \in PointSetsOne : buildIndexPoints(Primary, points)
    \/ \E points \in PointSetsOne : addPoints(Primary, points, 2)
    \/ \E id \in PointIdsOne : removePoint(Primary, id)
    \/ veclen(Primary)
    \/ size(Primary)
    \/ getType(Primary)
    \/ \E v \in Variants, q \in QuerySetsOne, k \in Knns, sp \in SearchParamsSet :
            knnSearch(Primary, v, q, k, sp)
    \/ \E v \in Variants, q \in QuerySetsOne, r \in Radii, sp \in SearchParamsSet :
            radiusSearch(Primary, v, q, r, sp)
    \/ \E fn \in SaveNames : save(Primary, fn)

Spec == Init /\ [][Next]_vars

(***************************************************************************)
(* A program of two facades that constructs, copies, assigns, changes,     *)
(* saves and destroys them.                                                *)
(***************************************************************************)
NextTwo ==
    \/ \E f \in Facades, params \in Configs : Construct(f, params)
    \/ \E f \in Facades, features \in PointSets, params \in Configs :
            ConstructFeatures(f, features, params)
    \/ \E f, other \in Facades : CopyConstruct(f, other)
    \/ \E f, rhs \in Facades : Assign(f, rhs)
    \/ \E f \in Facades : Destroy(f)
    \/ \E f \in Facades : buildIndex(f)
    \/ \E f \in Facades, points \in PointSets : buildIndexPoints(f, points)
    \/ \E f \in Facades, points \in PointSets : addPoints(f, points, 2)
    \/ \E f \in Facades, id \in PointIds : removePoint(f, id)
    \/ \E f \in Facades, fn \in SaveNames : save(f, fn)

SpecTwo == Init /\ [][NextTwo]_vars

(***************************************************************************)
(* Properties.                                                             *)
(***************************************************************************)
IsCtor(o) == o \in {"MultiThreadIndex(params)", "MultiThreadIndex(features,params)"}

IsQuery(o) == o \in {"knnSearch", "radiusSearch"}

NumCalls(evs, c) == Cardinality(Calls(evs, c))

\* C1: buildIndex() calls nnIndex_->buildIndex() exactly once when loaded_ is
\* false; when loaded_ is true it calls nothing and leaves the facades and the
\* index instances as they were.
C1_BuildIndexSkipsLoaded ==
    [][\A f \in Facades :
        (last'.op = "buildIndex()" /\ last'.fac = f) =>
            IF facade[f].loaded_
            THEN /\ last'.events = <<>>
                 /\ last'.error = ""
                 /\ facade' = facade
                 /\ heap' = heap
                 /\ files' = files
                 /\ crashed' = crashed
            ELSE /\ facade[f].nnIndex_ \in Addrs
                 /\ last'.events = <<Ev("buildIndex", facade[f].nnIndex_, <<>>)>>
                 /\ heap' = [heap EXCEPT ![facade[f].nnIndex_] = Alg_buildIndex(@)]
                 /\ facade' = facade]_vars

\* buildIndex() was just called on a restored facade and skipped
C1_Witness ==
    /\ last.op = "buildIndex()"
    /\ facade[last.fac].loaded_
    /\ facade[last.fac].nnIndex_ # NULL
    /\ heap[facade[last.fac].nnIndex_].restored
    /\ last.events = <<>>

\* C2: buildIndex(points) always passes points to nnIndex_->buildIndex,
\* whatever loaded_ is.
C2_BuildIndexPointsForwards ==
    (last.op = "buildIndex(points)") =>
        /\ last.error = ""
        /\ facade[last.fac].nnIndex_ \in Addrs
        /\ last.events = <<Ev("buildIndex", facade[last.fac].nnIndex_, last.args)>>

\* C3: a live facade has loaded_ true exactly when its instance was filled by
\* loadIndex; a constructor sets loaded_ true exactly when the algorithm is
\* FLANN_INDEX_SAVED and the restore took place, and otherwise leaves a fresh,
\* unbuilt instance of the requested type.
C3_LoadedIffRestored ==
    /\ \A f \in Live :
        facade[f].loaded_ <=>
            (facade[f].nnIndex_ # NULL /\ Deref(facade[f].nnIndex_).restored)
    /\ (IsCtor(last.op) /\ last.error = "") =>
        LET f == last.fac
            params == last.args[1]
        IN  /\ facade[f].loaded_ <=>
                (/\ params.algorithm = FLANN_INDEX_SAVED
                 /\ NumCalls(last.events, "loadIndex") = 1)
            /\ ~facade[f].loaded_ =>
                Owned(f) = Index(params.algorithm, last.args[2])

\* C4: when the file of a restore cannot be opened, construction fails with
\* "Cannot open file"; every constructed facade has a non-null nnIndex_.
C4_OpenFailureIsAnError ==
    /\ \A f \in Live : facade[f].nnIndex_ # NULL
    /\ (IsCtor(last.op) /\ NumCalls(last.events, "fopen_failed") > 0) =>
        /\ last.error = CannotOpen
        /\ ~facade[last.fac].live

\* the header load_saved_index read in the last call
HeaderRead(evs) == evs[2].args

\* C5: load_saved_index reads the header first and validates its data type
\* before anything else: on a mismatch it throws the datatype exception,
\* creates no instance, never calls loadIndex, and no facade is constructed;
\* loadIndex is called only after the validation passed.
C5_HeaderValidatedFirst ==
    [][(IsCtor(last'.op) /\ NumCalls(last'.events, "fopen") > 0) =>
        LET evs == last'.events
        IN  /\ evs[1].call = "fopen"
            /\ Len(evs) >= 2
            /\ evs[2].call = "load_header"
            /\ (HeaderRead(evs) # <<>> /\ HeaderRead(evs)[1] # ElementTypeTag) =>
                /\ last'.error = DatatypeMismatch
                /\ last'.error # CannotOpen
                /\ NumCalls(evs, "create_index_by_type") = 0
                /\ NumCalls(evs, "loadIndex") = 0
                /\ heap' = heap
                /\ nalloc' = nalloc
                /\ facade' = facade
                /\ ~facade'[last'.fac].live
            /\ \A i \in Calls(evs, "loadIndex") :
                /\ i > 2
                /\ HeaderRead(evs) # <<>>
                /\ HeaderRead(evs)[1] = ElementTypeTag]_vars

\* a restore met a file of another element type
C5_Witness ==
    /\ IsCtor(last.op)
    /\ last.args[1].algorithm = FLANN_INDEX_SAVED
    /\ NumCalls(last.events, "load_header") = 1
    /\ HeaderRead(last.events) = <<FLANN_FLOAT64>>
    /\ last.error = DatatypeMismatch

\* C6: save either throws "Cannot open file" without calling saveIndex, or
\* calls saveIndex exactly once on the opened file and then closes it; the
\* facade's members and its instance are unchanged either way.
C6_SaveOpensSerializesCloses ==
    [][(last'.op = "save") =>
        LET evs == last'.events
            p == facade[last'.fac].nnIndex_
        IN  /\ \/ /\ last'.error = CannotOpen
                  /\ NumCalls(evs, "saveIndex") = 0
               \/ /\ evs = <<Ev("fopen", NULL, <<last'.args[1], "wb">>),
                             Ev("saveIndex", p, <<>>),
                             Ev("fclose", NULL, <<>>)>>
            /\ facade' = facade
            /\ heap' = heap]_vars

\* every live facade owns one live instance, no instance has two owners, and
\* no instance is left live without an owner or deleted twice
OwnershipInv ==
    /\ \A f \in Live :
        /\ facade[f].nnIndex_ \in Addrs
        /\ heap[facade[f].nnIndex_].st = "live"
    /\ \A f, g \in Live : f # g => facade[f].nnIndex_ # facade[g].nnIndex_
    /\ \A a \in Addrs :
        heap[a].st = "live" => \E f \in Live : facade[f].nnIndex_ = a
    /\ ~crashed

\* a call on one facade leaves every other facade and its instance as they
\* were; this covers the right-hand side of an assignment
OthersUntouched ==
    \A g \in Facades :
        (g # last'.fac /\ facade[g].live) =>
            /\ facade'[g] = facade[g]
            /\ Deref(facade'[g].nnIndex_) = Deref(facade[g].nnIndex_)

\* C7: after any construction, copy, assignment and destruction every live
\* facade owns exactly one instance, no instance has two owners (a copy owns
\* a clone, so changing one never changes the other), every instance is
\* deleted exactly once, with its owner, and assignment leaves its
\* right-hand side as it was.
C7_ExclusiveOwnership == []OwnershipInv /\ [][OthersUntouched]_vars

\* the facade the last call constructed from a file that save wrote
RestoredFromSave ==
    /\ IsCtor(last.op)
    /\ last.args[1].algorithm = FLANN_INDEX_SAVED
    /\ savedFrom[last.args[1].filename].valid

\* the queries the round trip is compared on
RoundTripQueries(vl) == {Mat(vl, <<[c \in 1..vl |-> v]>>) : v \in 0..2}

\* C8: constructing a facade with SavedIndexParams(filename) from the file a
\* save wrote succeeds and gives an index with the size(), the veclen() and
\* the k-nearest-neighbour and radius results of the index that was saved.
C8_SaveLoadRoundTrip ==
    RestoredFromSave =>
        LET f == last.fac
            s == savedFrom[last.args[1].filename].snap
            a == Owned(f)
        IN  /\ last.error = ""
            /\ facade[f].live
            /\ facade[f].nnIndex_ # NULL
            /\ Alg_size(a) = Alg_size(s)
            /\ Alg_veclen(a) = Alg_veclen(s)
            /\ Alg_getType(a) = Alg_getType(s)
            /\ \A q \in RoundTripQueries(Alg_veclen(s)) :
                /\ \A k \in 1..(MaxPts + 1) :
                    Alg_knnSearch(a, q, k) = Alg_knnSearch(s, q, k)
                /\ \A r \in 0..4 :
                    Alg_radiusSearch(a, q, r) = Alg_radiusSearch(s, q, r)

\* a facade was restored from the save of an index with a removed point
C8_Witness ==
    /\ RestoredFromSave
    /\ last.error = ""
    /\ Len(Owned(last.fac).pts) >= 2
    /\ Owned(last.fac).removed # {}
    /\ Alg_size(Owned(last.fac)) >= 1

\* the count nnIndex_'s search returns for the arguments of a query
AlgCount(o, a, args) ==
    IF o = "knnSearch" THEN Count(Alg_knnSearch(a, args[2], args[3]))
    ELSE Count(Alg_radiusSearch(a, args[2], args[3]))

\* C9: every knnSearch and radiusSearch overload makes exactly one call of
\* the same name on nnIndex_ with its own arguments, returns what that call
\* returns, and leaves loaded_, index_params_ and nnIndex_ unchanged.
C9_QueriesForwardOnce ==
    [][IsQuery(last'.op) =>
        LET f == last'.fac
            p == facade[f].nnIndex_
        IN  /\ p \in Addrs
            /\ last'.events = <<Ev(last'.op, p, last'.args)>>
            /\ last'.ret = AlgCount(last'.op, Deref(p), last'.args)
            /\ facade' = facade]_vars

(***************************************************************************)
(* What holds of the calls that reach an instance: the forwarding calls on *)
(* a facade whose nnIndex_ is not null, and the saves whose saveIndex      *)
(* returns.                                                                *)
(***************************************************************************)
ForwardsWhenOwned ==
    [][(last'.op \in {"buildIndex(points)", "knnSearch", "radiusSearch"}
            /\ facade[last'.fac].nnIndex_ # NULL) =>
        /\ last'.events =
              <<Ev(IF last'.op = "buildIndex(points)" THEN "buildIndex" ELSE last'.op,
                   facade[last'.fac].nnIndex_, last'.args)>>
        /\ facade' = facade
        /\ IsQuery(last'.op) =>
              /\ heap' = heap
              /\ last'.ret = AlgCount(last'.op, Owned(last'.fac), last'.args)]_vars

SaveClosesWhenSerializerReturns ==
    (last.op = "save" /\ last.error \notin {SIGSEGV, WriteError}) =>
        \/ /\ last.error = CannotOpen
           /\ NumCalls(last.events, "saveIndex") = 0
           /\ NumCalls(last.events, "fopen") = 0
        \/ /\ last.error = ""
           /\ Len(last.events) = 3
           /\ last.events[1].call = "fopen"
           /\ last.events[2] = Ev("saveIndex", facade[last.fac].nnIndex_, <<>>)
           /\ last.events[3].call = "fclose"

\* C10: every FILE* opened by save or by load_saved_index is closed when the
\* call ends, however it ends.
C10_FilesClosed ==
    NumCalls(last.events, "fopen") = NumCalls(last.events, "fclose")

====
